---- MODULE Spec2Model ----
(***************************************************************************)
(* Model of src/smart_task_generator.py: FactChecker (the source index and *)
(* the duplicate check), ResearchEngine, ADRGenerator and                  *)
(* SmartTaskGenerator (the marker scan and the task list).                 *)
(*                                                                         *)
(* Python str values that the program inspects (substring tests, regular   *)
(* expressions, lower(), split(), Path.stem, formatting) are sequences of  *)
(* one-character strings, so that these operations are computed.  Text     *)
(* that the program only carries around (titles, rationales, the values of *)
(* 'type', 'priority' and 'status') is a TLA+ string.                      *)
(***************************************************************************)
EXTENDS Integers, Sequences, FiniteSets, TLC

(***************************************************************************)
(* Bounds of the model.                                                    *)
(***************************************************************************)
\* Longest enumerated content of a.erl, in lines.
MaxLines == 2
\* Most keywords after the marker of a text of MarkerTexts.
MaxWords == 2

(***************************************************************************)
(* Python str operations.                                                  *)
(***************************************************************************)
\* text: "ABCDEFGHIJKLMNOPQRSTUVWXYZ"
UpperLetters == <<"A","B","C","D","E","F","G","H","I","J","K","L","M","N","O","P","Q","R","S","T","U","V","W","X","Y","Z">>
\* text: "abcdefghijklmnopqrstuvwxyz"
LowerLetters == <<"a","b","c","d","e","f","g","h","i","j","k","l","m","n","o","p","q","r","s","t","u","v","w","x","y","z">>
\* text: "0123456789"
Digits == <<"0","1","2","3","4","5","6","7","8","9">>

InSeq(x, s) == \E k \in 1..Len(s) : s[k] = x

\* The lower-case letter of each upper-case letter.
ToLower ==
    [c \in {UpperLetters[k] : k \in 1..Len(UpperLetters)} |->
        LowerLetters[CHOOSE k \in 1..Len(UpperLetters) : UpperLetters[k] = c]]

\* str.lower() on one character.
LowerChar(c) == IF c \in DOMAIN ToLower THEN ToLower[c] ELSE c

\* str.lower() (the concatenation makes the result an explicit tuple).
Lower(s) == [k \in 1..Len(s) |-> LowerChar(s[k])] \o <<>>

\* `sub in s` for two str values.
Contains(sub, s) ==
    \E k \in 0..(Len(s) - Len(sub)) : \A j \in 1..Len(sub) : s[k + j] = sub[j]

StartsWith(s, prefix) ==
    /\ Len(prefix) <= Len(s)
    /\ \A j \in 1..Len(prefix) : s[j] = prefix[j]

EndsWith(s, suffix) ==
    /\ Len(suffix) <= Len(s)
    /\ \A j \in 1..Len(suffix) : s[Len(s) - Len(suffix) + j] = suffix[j]

\* The characters \s matches.
SpaceChars == {" ", "\t", "\n", "\r", "\f"}

IsSpace(c) == c \in SpaceChars

\* The characters \w matches.
WordChars ==
    {UpperLetters[k] : k \in 1..Len(UpperLetters)}
    \cup {LowerLetters[k] : k \in 1..Len(LowerLetters)}
    \cup {Digits[k] : k \in 1..Len(Digits)}
    \cup {"_"}

IsWord(c) == c \in WordChars

\* The least index >= p of s whose character is in S, or Len(s) + 1.
NextIn(s, p, S) ==
    IF \E k \in p..Len(s) : s[k] \in S
    THEN CHOOSE k \in p..Len(s) : s[k] \in S /\ \A j \in p..(k - 1) : s[j] \notin S
    ELSE Len(s) + 1

\* The least index >= p of s whose character is not in S, or Len(s) + 1.
NextNotIn(s, p, S) ==
    IF \E k \in p..Len(s) : s[k] \notin S
    THEN CHOOSE k \in p..Len(s) : s[k] \notin S /\ \A j \in p..(k - 1) : s[j] \in S
    ELSE Len(s) + 1

\* str.split('\n')
RECURSIVE SplitLines(_)
SplitLines(s) ==
    LET k == NextIn(s, 1, {"\n"})
    IN  IF k > Len(s)
        THEN <<s>>
        ELSE <<SubSeq(s, 1, k - 1)>> \o SplitLines(SubSeq(s, k + 1, Len(s)))

\* str.strip()
Strip(s) ==
    LET a == NextNotIn(s, 1, SpaceChars)
    IN  IF a > Len(s)
        THEN <<>>
        ELSE LET b == CHOOSE k \in a..Len(s) :
                        ~IsSpace(s[k]) /\ \A j \in (k + 1)..Len(s) : IsSpace(s[j])
             IN  SubSeq(s, a, b)

\* str.replace("_", " ")
ReplaceUnderscore(s) == [k \in 1..Len(s) |-> IF s[k] = "_" THEN " " ELSE s[k]]

\* str(n) for an int n >= 0.
RECURSIVE IntToStr(_)
IntToStr(n) ==
    IF n < 10 THEN <<Digits[n + 1]>> ELSE IntToStr(n \div 10) \o <<Digits[(n % 10) + 1]>>

\* The format specification 03d for an int n >= 0.
Format03d(n) ==
    LET d == IntToStr(n)
    IN  IF Len(d) >= 3 THEN d ELSE [k \in 1..(3 - Len(d)) |-> "0"] \o d

(***************************************************************************)
(* pathlib operations on the str of a path.                                *)
(***************************************************************************)
\* The / operator of Path.
PathJoin(a, b) == a \o <<"/">> \o b

\* Path.name: the final component.
PathName(p) ==
    LET slashes == {k \in 1..Len(p) : p[k] = "/"}
    IN  IF slashes = {}
        THEN p
        ELSE SubSeq(p, (CHOOSE k \in slashes : \A j \in slashes : j <= k) + 1, Len(p))

\* Path.stem: the name without its last suffix.
PathStem(p) ==
    LET name == PathName(p)
        dots == {k \in 1..Len(name) : name[k] = "."}
        last == CHOOSE k \in dots : \A j \in dots : j <= k
    IN  IF dots # {} /\ 1 < last /\ last < Len(name)
        THEN SubSeq(name, 1, last - 1)
        ELSE name

\* Whether a file name matches the glob pattern *.erl.
\* text: ".erl"
GlobErl(name) == EndsWith(name, <<".","e","r","l">>)

(***************************************************************************)
(* re.findall(r'^(\w+)\([^)]*\)\s*->', content, re.MULTILINE)              *)
(***************************************************************************)
\* The index after a match that starts at p, or 0 when none starts there.
FunctionMatchEnd(c, p) ==
    LET q == NextNotIn(c, p, WordChars)
        r == NextIn(c, q + 1, {")"})
        s == NextNotIn(c, r + 1, SpaceChars)
    IN  IF /\ (p = 1 \/ c[p - 1] = "\n")
           /\ q > p
           /\ q <= Len(c) /\ c[q] = "("
           /\ r <= Len(c)
           /\ s + 1 <= Len(c) /\ c[s] = "-" /\ c[s + 1] = ">"
        THEN s + 2
        ELSE 0

\* The least index >= p at which ^ matches: the start of the text or the
\* index after a newline (Len(c) + 2 when there is none).
NextLineStart(c, p) ==
    IF p = 1 \/ c[p - 1] = "\n" THEN p ELSE NextIn(c, p, {"\n"}) + 1

\* The matches from index p on, left to right and not overlapping: the scan
\* tries each index in turn, and a match can only start where ^ matches.
RECURSIVE FindFunctionsFrom(_, _)
FindFunctionsFrom(c, p) ==
    LET b == NextLineStart(c, p)
    IN  IF b > Len(c)
        THEN <<>>
        ELSE LET e == FunctionMatchEnd(c, b)
             IN  IF e > 0
                 THEN <<SubSeq(c, b, NextNotIn(c, b, WordChars) - 1)>> \o FindFunctionsFrom(c, e)
                 ELSE FindFunctionsFrom(c, b + 1)

FindFunctions(c) == FindFunctionsFrom(c, 1)

(***************************************************************************)
(* FactChecker.check_implementation_exists                                 *)
(***************************************************************************)
\* Confidence of a function_exists finding, in tenths (0.9).
CONF_FUNCTION_EXISTS == 9
\* Confidence of a similar_module finding, in tenths (0.7).
CONF_SIMILAR_MODULE == 7

\* A variant without the test of the module pattern against the path.
EntryFindingsFunctionOnly(entry, function_name, module_pattern) ==
    IF InSeq(function_name, entry.functions)
    THEN <<[file |-> entry.path, type |-> "function_exists",
            confidence |-> CONF_FUNCTION_EXISTS]>>
    ELSE <<>>

\* A variant that tests whether the name occurs inside a declared name.
EntryFindingsSubstring(entry, function_name, module_pattern) ==
    (IF \E k \in 1..Len(entry.functions) : Contains(function_name, entry.functions[k])
     THEN <<[file |-> entry.path, type |-> "function_exists",
             confidence |-> CONF_FUNCTION_EXISTS]>>
     ELSE <<>>)
    \o
    (IF Contains(module_pattern, entry.path)
     THEN <<[file |-> entry.path, type |-> "similar_module",
             confidence |-> CONF_SIMILAR_MODULE]>>
     ELSE <<>>)

\* The findings one entry of the code database contributes.
EntryFindings(entry, function_name, module_pattern) ==
    (IF InSeq(function_name, entry.functions)
     THEN <<[file |-> entry.path, type |-> "function_exists",
             confidence |-> CONF_FUNCTION_EXISTS]>>
     ELSE <<>>)
    \o
    (IF Contains(module_pattern, entry.path)
     THEN <<[file |-> entry.path, type |-> "similar_module",
             confidence |-> CONF_SIMILAR_MODULE]>>
     ELSE <<>>)

\* The findings of the entries db[k..], in the order of the database.
RECURSIVE FindingsFrom(_, _, _, _)
FindingsFrom(db, k, function_name, module_pattern) ==
    IF k > Len(db)
    THEN <<>>
    ELSE EntryFindings(db[k], function_name, module_pattern)
         \o FindingsFrom(db, k + 1, function_name, module_pattern)

\* A variant that skips only on a finding of confidence above 0.8.
RecommendationThreshold(findings) ==
    IF \E k \in 1..Len(findings) : findings[k].confidence > 8 THEN "skip" ELSE "implement"

\* 'skip' if findings else 'implement'
Recommendation(findings) == IF Len(findings) > 0 THEN "skip" ELSE "implement"

check_implementation_exists(db, function_name, module_pattern) ==
    LET findings == FindingsFrom(db, 1, function_name, module_pattern)
    IN  [exists |-> Len(findings) > 0,
         findings |-> findings,
         recommendation |-> Recommendation(findings)]

(***************************************************************************)
(* ResearchEngine.research_erlang_pattern                                  *)
(***************************************************************************)
\* text: "consistent_hashing"
consistent_hashing == <<"c","o","n","s","i","s","t","e","n","t","_","h","a","s","h","i","n","g">>
\* text: "gossip_protocol"
gossip_protocol == <<"g","o","s","s","i","p","_","p","r","o","t","o","c","o","l">>
\* text: "rust_nif"
rust_nif == <<"r","u","s","t","_","n","i","f">>
\* text: "supervision"
supervision == <<"s","u","p","e","r","v","i","s","i","o","n">>
\* text: "general"
general == <<"g","e","n","e","r","a","l">>

research_erlang_pattern(pattern) ==
    IF pattern = consistent_hashing THEN
        [algorithms |-> <<"SHA-1 ring", "Jump consistent hash", "Rendezvous hashing">>,
         erlang_libs |-> <<"riak_core", "hash_ring", "consistent_hash">>,
         \* text: "Use riak_core for production-grade consistent hashing"
         recommendation |-> <<"U","s","e"," ","r","i","a","k","_","c","o","r","e"," ","f","o","r"," ","p","r","o","d","u","c","t","i","o","n","-","g","r","a","d","e"," ","c","o","n","s","i","s","t","e","n","t"," ","h","a","s","h","i","n","g">>]
    ELSE IF pattern = gossip_protocol THEN
        [algorithms |-> <<"Epidemic broadcast", "Anti-entropy", "Rumor mongering">>,
         erlang_libs |-> <<"partisan", "plumtree", "scamp">>,
         \* text: "Use plumtree for efficient gossip with tree optimization"
         recommendation |-> <<"U","s","e"," ","p","l","u","m","t","r","e","e"," ","f","o","r"," ","e","f","f","i","c","i","e","n","t"," ","g","o","s","s","i","p"," ","w","i","t","h"," ","t","r","e","e"," ","o","p","t","i","m","i","z","a","t","i","o","n">>]
    ELSE IF pattern = rust_nif THEN
        [patterns |-> <<"Resource management", "Dirty schedulers", "Message passing">>,
         best_practices |-> <<"Use ResourceArc", "Handle timeouts", "Avoid blocking">>,
         \* text: "Use rustler with proper resource lifecycle management"
         recommendation |-> <<"U","s","e"," ","r","u","s","t","l","e","r"," ","w","i","t","h"," ","p","r","o","p","e","r"," ","r","e","s","o","u","r","c","e"," ","l","i","f","e","c","y","c","l","e"," ","m","a","n","a","g","e","m","e","n","t">>]
    ELSE IF pattern = supervision THEN
        [strategies |-> <<"one_for_one", "one_for_all", "rest_for_one", "simple_one_for_one">>,
         \* text: "Use one_for_one for independent processes like memory shards"
         recommendation |-> <<"U","s","e"," ","o","n","e","_","f","o","r","_","o","n","e"," ","f","o","r"," ","i","n","d","e","p","e","n","d","e","n","t"," ","p","r","o","c","e","s","s","e","s"," ","l","i","k","e"," ","m","e","m","o","r","y"," ","s","h","a","r","d","s">>]
    ELSE
        \* text: "Research "
        [recommendation |-> <<"R","e","s","e","a","r","c","h"," ">> \o pattern
                            \* text: " patterns in Erlang/OTP documentation"
                            \o <<" ","p","a","t","t","e","r","n","s"," ","i","n"," ","E","r","l","a","n","g","/","O","T","P"," ","d","o","c","u","m","e","n","t","a","t","i","o","n">>]

(***************************************************************************)
(* ADRGenerator.generate_adr                                               *)
(***************************************************************************)
adr_templates ==
    [supervision_strategy |->
        [title |-> "Memory Service Supervision Strategy",
         context |-> "Need to choose supervision strategy for memory shards and workers",
         \* text: "one_for_one: Independent restarts (recommended)"
         options |-> << <<"o","n","e","_","f","o","r","_","o","n","e",":"," ","I","n","d","e","p","e","n","d","e","n","t"," ","r","e","s","t","a","r","t","s"," ","(","r","e","c","o","m","m","e","n","d","e","d",")">>,
                        \* text: "one_for_all: Restart all on failure"
                        <<"o","n","e","_","f","o","r","_","a","l","l",":"," ","R","e","s","t","a","r","t"," ","a","l","l"," ","o","n"," ","f","a","i","l","u","r","e">>,
                        \* text: "rest_for_one: Restart failed and subsequent processes"
                        <<"r","e","s","t","_","f","o","r","_","o","n","e",":"," ","R","e","s","t","a","r","t"," ","f","a","i","l","e","d"," ","a","n","d"," ","s","u","b","s","e","q","u","e","n","t"," ","p","r","o","c","e","s","s","e","s">> >>,
         \* text: "one_for_one"
         decision |-> <<"o","n","e","_","f","o","r","_","o","n","e">>,
         rationale |-> "Memory shards should be independent - one shard failure should not affect others",
         consequences |-> [positive |-> <<"Fault isolation", "Better availability">>,
                           negative |-> <<"Possible data inconsistency during restart">>]],
     consistent_hashing |->
        [title |-> "Consistent Hashing Algorithm Choice",
         context |-> "Need consistent hashing for memory shard distribution",
         \* text: "SHA-1 ring: Simple but uneven distribution"
         options |-> << <<"S","H","A","-","1"," ","r","i","n","g",":"," ","S","i","m","p","l","e"," ","b","u","t"," ","u","n","e","v","e","n"," ","d","i","s","t","r","i","b","u","t","i","o","n">>,
                        \* text: "Jump consistent hash: Even distribution, complex rebalancing"
                        <<"J","u","m","p"," ","c","o","n","s","i","s","t","e","n","t"," ","h","a","s","h",":"," ","E","v","e","n"," ","d","i","s","t","r","i","b","u","t","i","o","n",","," ","c","o","m","p","l","e","x"," ","r","e","b","a","l","a","n","c","i","n","g">>,
                        \* text: "Rendezvous hashing: Simple, good for small clusters"
                        <<"R","e","n","d","e","z","v","o","u","s"," ","h","a","s","h","i","n","g",":"," ","S","i","m","p","l","e",","," ","g","o","o","d"," ","f","o","r"," ","s","m","a","l","l"," ","c","l","u","s","t","e","r","s">> >>,
         \* text: "SHA-1 ring with virtual nodes"
         decision |-> <<"S","H","A","-","1"," ","r","i","n","g"," ","w","i","t","h"," ","v","i","r","t","u","a","l"," ","n","o","d","e","s">>,
         rationale |-> "Balance between simplicity and distribution quality",
         consequences |-> [positive |-> <<"Well-understood algorithm", "Good Erlang libraries">>,
                           negative |-> <<"Requires virtual nodes for even distribution">>]],
     rust_nif_integration |->
        [title |-> "Rust NIF Integration Pattern",
         context |-> "Need safe and efficient Rust NIF integration",
         \* text: "Direct NIFs: Fast but unsafe"
         options |-> << <<"D","i","r","e","c","t"," ","N","I","F","s",":"," ","F","a","s","t"," ","b","u","t"," ","u","n","s","a","f","e">>,
                        \* text: "Resource pools: Safe with lifecycle management"
                        <<"R","e","s","o","u","r","c","e"," ","p","o","o","l","s",":"," ","S","a","f","e"," ","w","i","t","h"," ","l","i","f","e","c","y","c","l","e"," ","m","a","n","a","g","e","m","e","n","t">>,
                        \* text: "Port drivers: Safe but slower"
                        <<"P","o","r","t"," ","d","r","i","v","e","r","s",":"," ","S","a","f","e"," ","b","u","t"," ","s","l","o","w","e","r">> >>,
         \* text: "Resource pools with ResourceArc"
         decision |-> <<"R","e","s","o","u","r","c","e"," ","p","o","o","l","s"," ","w","i","t","h"," ","R","e","s","o","u","r","c","e","A","r","c">>,
         rationale |-> "Provides safety guarantees while maintaining performance",
         consequences |-> [positive |-> <<"Memory safety", "Proper lifecycle management">>,
                           negative |-> <<"Slightly more complex implementation">>]]]

\* context.get('pattern', 'default')
ContextPattern(context) ==
    IF "pattern" \in DOMAIN context THEN context.pattern ELSE "default"

generate_adr(context) ==
    LET pattern == ContextPattern(context)
    IN  IF pattern \in DOMAIN adr_templates
        THEN adr_templates[pattern]
        ELSE adr_templates["supervision_strategy"]

(***************************************************************************)
(* SmartTaskGenerator._generate_required_adrs                              *)
(***************************************************************************)
required_adrs ==
    << [pattern |-> "supervision_strategy"],
       [pattern |-> "consistent_hashing"],
       [pattern |-> "rust_nif_integration"] >>

\* A variant that numbers the ADRs from 0.
NumberedAdrFromZero(adr_context, n) ==
    LET adr == generate_adr(adr_context)
    IN  [title |-> adr.title, context |-> adr.context, options |-> adr.options,
         decision |-> adr.decision, rationale |-> adr.rationale,
         consequences |-> adr.consequences,
         \* text: "ADR-"
         id |-> <<"A","D","R","-">> \o Format03d(n),
         status |-> "needs_approval"]

\* The ADR appended when `n` ADRs are in the list: its id is ADR-(n+1).
NumberedAdr(adr_context, n) ==
    LET adr == generate_adr(adr_context)
    IN  [title |-> adr.title, context |-> adr.context, options |-> adr.options,
         decision |-> adr.decision, rationale |-> adr.rationale,
         consequences |-> adr.consequences,
         \* text: "ADR-"
         id |-> <<"A","D","R","-">> \o Format03d(n + 1),
         status |-> "needs_approval"]

\* The list after the loop has handled required[k..], starting from adrs.
RECURSIVE AdrLoop(_, _, _)
AdrLoop(required, k, adrs) ==
    IF k > Len(required)
    THEN adrs
    ELSE AdrLoop(required, k + 1, Append(adrs, NumberedAdr(required[k], Len(adrs))))

generate_required_adrs == AdrLoop(required_adrs, 1, <<>>)

(***************************************************************************)
(* SmartTaskGenerator._create_verified_task                                *)
(***************************************************************************)
HOURS_STUB == 3
HOURS_OTHER == 2

\* A variant that tests "nif" before "gossip".
ExtractPatternNifFirst(content) ==
    \* text: "consistent"
    IF Contains(<<"c","o","n","s","i","s","t","e","n","t">>, Lower(content)) THEN consistent_hashing
    \* text: "nif"
    ELSE IF Contains(<<"n","i","f">>, Lower(content)) THEN rust_nif
    \* text: "gossip"
    ELSE IF Contains(<<"g","o","s","s","i","p">>, Lower(content)) THEN gossip_protocol
    ELSE general

\* The pattern extracted from the content of a marker line.
ExtractPattern(content) ==
    \* text: "consistent"
    IF Contains(<<"c","o","n","s","i","s","t","e","n","t">>, Lower(content)) THEN consistent_hashing
    \* text: "gossip"
    ELSE IF Contains(<<"g","o","s","s","i","p">>, Lower(content)) THEN gossip_protocol
    \* text: "nif"
    ELSE IF Contains(<<"n","i","f">>, Lower(content)) THEN rust_nif
    ELSE general

\* The FACT check of a marker: the pattern against the stem of its file.
FactCheck(db, file_path, content) ==
    check_implementation_exists(db, ExtractPattern(content), PathStem(file_path))

\* A variant with the test of the task type inverted.
TaskHoursInverted(task_type) == IF task_type = "stub" THEN HOURS_OTHER ELSE HOURS_STUB

TaskHours(task_type) == IF task_type = "stub" THEN HOURS_STUB ELSE HOURS_OTHER

TaskPriority(task_type) == IF task_type = "stub" THEN "high" ELSE "medium"

\* The task dictionary built at the end of _create_verified_task.
MakeTask(file_path, line_num, content, task_type) ==
    LET pattern == ExtractPattern(content)
        research == research_erlang_pattern(pattern)
    \* text: "SMART-", ":"
    IN  [id |-> <<"S","M","A","R","T","-">> \o IntToStr(Len(file_path)) \o <<":">> \o IntToStr(line_num),
         \* text: "Implement ", " in "
         title |-> <<"I","m","p","l","e","m","e","n","t"," ">> \o ReplaceUnderscore(pattern) \o <<" ","i","n"," ">>
                   \o PathName(file_path),
         description |-> Strip(content),
         file |-> file_path,
         line |-> line_num,
         type |-> task_type,
         pattern |-> pattern,
         hours |-> TaskHours(task_type),
         fact_verified |-> TRUE,
         research |-> research,
         implementation_notes |-> research.recommendation,
         priority |-> TaskPriority(task_type)]

\* Whether the FACT check makes _create_verified_task return None.
Skipped(db, file_path, content) ==
    FactCheck(db, file_path, content).recommendation = "skip"

\* The tasks a call appends to the list: none when it returns None.
create_verified_task(db, file_path, line_num, content, task_type) ==
    IF Skipped(db, file_path, content)
    THEN <<>>
    ELSE <<MakeTask(file_path, line_num, content, task_type)>>

(***************************************************************************)
(* The file trees the program is run on.                                   *)
(*                                                                         *)
(* A tree is [root, exists, symlinks, files]: the str of the root path,    *)
(* whether that path exists, the top-level directories of the root that    *)
(* are symbolic links to directories, and the files below the root.  A     *)
(* file is [dir, name, content, readable]: its directory relative to the   *)
(* root, its name, its text, and whether read_text() succeeds on it (it    *)
(* raises on a directory named *.erl, on a file without read permission    *)
(* and on bytes that do not decode).                                       *)
(***************************************************************************)
\* singularity_path of main().
\* text: "/home/mhugo/code/singularity-engine"
MAIN_ROOT == <<"/","h","o","m","e","/","m","h","u","g","o","/","c","o","d","e","/","s","i","n","g","u","l","a","r","i","t","y","-","e","n","g","i","n","e">>
\* Another root a caller may construct the generator with.
\* text: "/srv/zen"
OTHER_ROOT == <<"/","s","r","v","/","z","e","n">>
Roots == {MAIN_ROOT, OTHER_ROOT}

\* The directory generate_smart_tasks scans, relative to the root.
\* text: "platform/memory-service/erlang/src"
MEMORY_DIR == <<"p","l","a","t","f","o","r","m","/","m","e","m","o","r","y","-","s","e","r","v","i","c","e","/","e","r","l","a","n","g","/","s","r","c">>
\* text: "platform"
PLATFORM == <<"p","l","a","t","f","o","r","m">>
\* text: "core"
CORE_DIR == <<"c","o","r","e">>

File(dir, name, content, readable) ==
    [dir |-> dir, name |-> name, content |-> content, readable |-> readable]

\* The cap of tasks[:10].
TASK_CAP == 10

\* Lines of source text.
\* text: "% TODO: implement consistent hashing ring"
TodoConsistentLine == <<"%"," ","T","O","D","O",":"," ","i","m","p","l","e","m","e","n","t"," ","c","o","n","s","i","s","t","e","n","t"," ","h","a","s","h","i","n","g"," ","r","i","n","g">>
\* text: "    {error, not_implemented}"
StubText == <<" "," "," "," ","{","e","r","r","o","r",","," ","n","o","t","_","i","m","p","l","e","m","e","n","t","e","d","}">>
\* text: "_ -> {error, unknown_request}; % TODO Gossip NIF"
TodoStubLine == <<"_"," ","-",">"," ","{","e","r","r","o","r",","," ","u","n","k","n","o","w","n","_","r","e","q","u","e","s","t","}",";"," ","%"," ","T","O","D","O"," ","G","o","s","s","i","p"," ","N","I","F">>
\* text: "    ok."
PlainLine == <<" "," "," "," ","o","k",".">>
LineTexts == {TodoConsistentLine, StubText, TodoStubLine}

\* '\n'.join(ls)
RECURSIVE JoinLines(_)
JoinLines(ls) ==
    IF Len(ls) = 0 THEN <<>>
    ELSE IF Len(ls) = 1 THEN ls[1]
    \* text: "\n"
    ELSE ls[1] \o <<"\n">> \o JoinLines(Tail(ls))

\* Section 8, scenario 6 of the specification: line 5 of a.erl is the TODO.
Scenario6Content ==
    JoinLines(<<PlainLine, PlainLine, PlainLine, PlainLine, TodoConsistentLine>>)

\* Section 8, scenario 7: b.erl declares gossip_protocol and has a gossip TODO.
Scenario7Content ==
    \* text: "gossip_protocol(Peers) ->\n    % TODO: gossip fanout\n    ok.\n"
    <<"g","o","s","s","i","p","_","p","r","o","t","o","c","o","l","(","P","e","e","r","s",")"," ","-",">","\n"," "," "," "," ","%"," ","T","O","D","O",":"," ","g","o","s","s","i","p"," ","f","a","n","o","u","t","\n"," "," "," "," ","o","k",".","\n">>

\* A file whose markers, two on each line, outnumber the cap of tasks[:10].
ManyMarkersContent ==
    JoinLines([k \in 1..((TASK_CAP \div 2) + 1) |-> TodoStubLine])

\* A file elsewhere in the tree that declares consistent_hashing; its
\* second declaration spans two lines and its third is indented.
RingContent ==
    \* text: "consistent_hashing(Key) ->\n    ring(Key).\nring(Key,\n     N)\n  -> ok.\n  general() -> ok.\n"
    <<"c","o","n","s","i","s","t","e","n","t","_","h","a","s","h","i","n","g","(","K","e","y",")"," ","-",">","\n"," "," "," "," ","r","i","n","g","(","K","e","y",")",".","\n","r","i","n","g","(","K","e","y",",","\n"," "," "," "," "," ","N",")","\n"," "," ","-",">"," ","o","k",".","\n"," "," ","g","e","n","e","r","a","l","(",")"," ","-",">"," ","o","k",".","\n">>

\* A file elsewhere in the tree that declares nothing.
\* text: "% TODO gossip table\n-define(T, 1).\n"
TableContent == <<"%"," ","T","O","D","O"," ","g","o","s","s","i","p"," ","t","a","b","l","e","\n","-","d","e","f","i","n","e","(","T",","," ","1",")",".","\n">>

AContents ==
    {JoinLines(ls) : ls \in UNION {[1..n -> LineTexts] : n \in 0..MaxLines}}
    \cup {Scenario6Content}

\* The choices for a.erl, for b.erl and for a file outside the scanned
\* directory: each is the set of files the choice adds to the tree.
AChoices ==
    \* text: "a.erl"
    {{}} \cup {{File(MEMORY_DIR, <<"a",".","e","r","l">>, c, TRUE)} : c \in AContents}
         \* text: "a.erl"
         \cup {{File(MEMORY_DIR, <<"a",".","e","r","l">>, <<>>, FALSE)}}

BChoices ==
    \* text: "b.erl"
    {{}} \cup {{File(MEMORY_DIR, <<"b",".","e","r","l">>, c, TRUE)} :
                   c \in {Scenario7Content, ManyMarkersContent}}
         \* text: "b.erl"
         \cup {{File(MEMORY_DIR, <<"b",".","e","r","l">>, <<>>, FALSE)}}

SideChoices ==
    { {},
      \* text: "ring.erl"
      {File(CORE_DIR, <<"r","i","n","g",".","e","r","l">>, RingContent, TRUE)},
      \* text: "table.erl"
      {File(CORE_DIR, <<"t","a","b","l","e",".","e","r","l">>, TableContent, TRUE)},
      \* text: "ring.erl.txt"
      {File(MEMORY_DIR, <<"r","i","n","g",".","e","r","l",".","t","x","t">>, RingContent, TRUE)} }

Trees ==
    {[root |-> r, exists |-> FALSE, symlinks |-> {}, files |-> {}] : r \in Roots}
    \cup
    {[root |-> r, exists |-> TRUE, symlinks |-> l, files |-> a \cup b \cup s] :
        r \in Roots, l \in {{}, {PLATFORM}},
        a \in AChoices, b \in BChoices, s \in SideChoices}

\* str(path) of a file of the tree.
FilePath(tree, f) == PathJoin(PathJoin(tree.root, f.dir), f.name)

\* Whether directory dir is d or lies below d.
Under(dir, d) == dir = d \/ StartsWith(dir, d \o <<"/">>)

\* singularity_path.rglob("*.erl"): the recursion does not enter symbolic links.
Rglob(tree) ==
    {f \in tree.files :
        /\ tree.exists
        /\ GlobErl(f.name)
        /\ \A d \in tree.symlinks : ~Under(f.dir, d)}

\* memory_dir.glob("*.erl"): the fixed components of memory_dir are followed.
MemoryGlob(tree) ==
    {f \in tree.files : tree.exists /\ f.dir = MEMORY_DIR /\ GlobErl(f.name)}

\* The orders in which a directory walk may yield a set of files.
Orders(S) ==
    {s \in [1..Cardinality(S) -> S] : \A j, k \in 1..Cardinality(S) : s[j] = s[k] => j = k}

(***************************************************************************)
(* State.                                                                  *)
(***************************************************************************)
VARIABLES
    fs,             \* the file tree at singularity_path
    pc,             \* "new", "constructed", "files", "todo", "stub", "done", "raised"
    code_database,  \* FactChecker.code_database, in insertion order
    pending,        \* files that memory_dir.glob has yet to yield
    erl_file,       \* str of the file being scanned
    lines,          \* content.split('\n') of the file being scanned
    i,              \* line number of the enumerate loop
    tasks,          \* the local list tasks of generate_smart_tasks
    calls,          \* the calls of _create_verified_task made so far: their
                    \* arguments and the pattern each extracted
    result          \* the dictionary generate_smart_tasks returned

vars == <<fs, pc, code_database, pending, erl_file, lines, i, tasks, calls, result>>

\* A variant that keeps one task more.
TakeOneMore(s, n) == SubSeq(s, 1, IF Len(s) < n + 1 THEN Len(s) ELSE n + 1)

\* tasks[:n]
Take(s, n) == SubSeq(s, 1, IF Len(s) < n THEN Len(s) ELSE n)

\* A variant that counts the returned tasks.
TotalFoundCapped(task_list) == Len(Take(task_list, TASK_CAP))

\* 'total_found': len(tasks)
TotalFound(task_list) == Len(task_list)

NoResult == [tasks |-> <<>>, adrs |-> <<>>, total_found |-> 0]

Init ==
    /\ fs \in Trees
    /\ pc = "new"
    /\ code_database = <<>>
    /\ pending = {}
    /\ erl_file = <<>>
    /\ lines = <<>>
    /\ i = 0
    /\ tasks = <<>>
    /\ calls = <<>>
    /\ result = NoResult

\* One entry of the code database (the fields no operation reads --
\* behaviors, patterns, content_hash -- are left out).
DatabaseEntry(tree, f) ==
    [path |-> FilePath(tree, f), functions |-> FindFunctions(f.content)]

\* SmartTaskGenerator.__init__: FactChecker.__init__ and _build_code_database.
\* read_text() raising aborts the construction.
Construct ==
    /\ pc = "new"
    /\ IF \E f \in Rglob(fs) : ~f.readable
       THEN /\ pc' = "raised"
            /\ UNCHANGED code_database
       ELSE /\ \E order \in Orders(Rglob(fs)) :
                  code_database' = [k \in 1..Len(order) |-> DatabaseEntry(fs, order[k])]
            /\ pc' = "constructed"
    /\ UNCHANGED <<fs, pending, erl_file, lines, i, tasks, calls, result>>

\* generate_smart_tasks up to the for loop over memory_dir.glob("*.erl").
BeginGenerate ==
    /\ pc = "constructed"
    /\ tasks' = <<>>
    /\ pending' = MemoryGlob(fs)
    /\ pc' = "files"
    /\ UNCHANGED <<fs, code_database, erl_file, lines, i, calls, result>>

\* The next file of the glob: content = erl_file.read_text().
NextFile ==
    /\ pc = "files"
    /\ \E f \in pending :
          /\ pending' = pending \ {f}
          /\ IF f.readable
             THEN /\ erl_file' = FilePath(fs, f)
                  /\ lines' = SplitLines(f.content)
                  /\ i' = 1
                  /\ pc' = "todo"
             ELSE /\ pc' = "raised"
                  /\ UNCHANGED <<erl_file, lines, i>>
    /\ UNCHANGED <<fs, code_database, tasks, calls, result>>

\* A variant that puts the new task at the head of the list.
HandleMarkerPrepend(task_type) ==
    /\ tasks' = create_verified_task(code_database, erl_file, i, lines[i], task_type) \o tasks
    /\ calls' = Append(calls, [file |-> erl_file, line |-> i, content |-> lines[i],
                               type |-> task_type, pattern |-> ExtractPattern(lines[i])])

\* The body of a marker loop for line i: the call and the append.
HandleMarker(task_type) ==
    /\ tasks' = tasks \o create_verified_task(code_database, erl_file, i, lines[i], task_type)
    /\ calls' = Append(calls, [file |-> erl_file, line |-> i, content |-> lines[i],
                               type |-> task_type, pattern |-> ExtractPattern(lines[i])])

\* text: "TODO"
IsTodo(line) == Contains(<<"T","O","D","O">>, line)

IsStub(line) ==
    \* text: "error, unknown_request"
    \/ Contains(<<"e","r","r","o","r",","," ","u","n","k","n","o","w","n","_","r","e","q","u","e","s","t">>, line)
    \* text: "error, not_implemented"
    \/ Contains(<<"e","r","r","o","r",","," ","n","o","t","_","i","m","p","l","e","m","e","n","t","e","d">>, line)

\* One iteration of the first loop over the lines; after the last line the
\* second loop starts.
TodoLine ==
    /\ pc = "todo"
    /\ IF IsTodo(lines[i])
       THEN HandleMarker("todo")
       ELSE UNCHANGED <<tasks, calls>>
    /\ IF i < Len(lines)
       THEN i' = i + 1 /\ pc' = "todo"
       ELSE i' = 1 /\ pc' = "stub"
    /\ UNCHANGED <<fs, code_database, pending, erl_file, lines, result>>

\* One iteration of the second loop over the lines; after the last line the
\* loop over the files goes on.
StubLine ==
    /\ pc = "stub"
    /\ IF IsStub(lines[i])
       THEN HandleMarker("stub")
       ELSE UNCHANGED <<tasks, calls>>
    /\ IF i < Len(lines)
       THEN i' = i + 1 /\ pc' = "stub"
       ELSE i' = 0 /\ pc' = "files"
    /\ UNCHANGED <<fs, code_database, pending, erl_file, lines, result>>

\* The end of generate_smart_tasks: the ADRs and the returned dictionary.
Return ==
    /\ pc = "files"
    /\ pending = {}
    /\ result' = [tasks |-> Take(tasks, TASK_CAP),
                  adrs |-> generate_required_adrs,
                  total_found |-> TotalFound(tasks)]
    /\ pc' = "done"
    /\ UNCHANGED <<fs, code_database, pending, erl_file, lines, i, tasks, calls>>

Next ==
    \/ Construct
    \/ BeginGenerate
    \/ NextFile
    \/ TodoLine
    \/ StubLine
    \/ Return

Spec == Init /\ [][Next]_vars

(***************************************************************************)
(* A second family of inputs: trees whose a.erl is one marker line with up *)
(* to MaxWords keywords after the marker, run through the same program.    *)
(***************************************************************************)
\* text: "consistent", "Gossip", "NIF", "unified", "hash"
KeywordTexts == {<<"c","o","n","s","i","s","t","e","n","t">>, <<"G","o","s","s","i","p">>, <<"N","I","F">>, <<"u","n","i","f","i","e","d">>, <<"h","a","s","h">>}

\* text: "% TODO", "{error, not_implemented} %"
MarkerPrefixes == {<<"%"," ","T","O","D","O">>, <<"{","e","r","r","o","r",","," ","n","o","t","_","i","m","p","l","e","m","e","n","t","e","d","}"," ","%">>}

\* The words of ws, each after a space.
RECURSIVE SpacedWords(_)
SpacedWords(ws) ==
    IF Len(ws) = 0 THEN <<>> ELSE <<" ">> \o ws[1] \o SpacedWords(Tail(ws))

MarkerTexts ==
    {p \o SpacedWords(ws) :
        p \in MarkerPrefixes, ws \in UNION {[1..n -> KeywordTexts] : n \in 0..MaxWords}}

MarkerTrees ==
    {[root |-> r, exists |-> TRUE, symlinks |-> l,
      \* text: "a.erl"
      files |-> {File(MEMORY_DIR, <<"a",".","e","r","l">>, t, TRUE)} \cup s] :
        r \in Roots, l \in {{}, {PLATFORM}}, t \in MarkerTexts, s \in SideChoices}

InitMarkerTexts ==
    /\ fs \in MarkerTrees
    /\ pc = "new"
    /\ code_database = <<>>
    /\ pending = {}
    /\ erl_file = <<>>
    /\ lines = <<>>
    /\ i = 0
    /\ tasks = <<>>
    /\ calls = <<>>
    /\ result = NoResult

SpecMarkerTexts == InitMarkerTexts /\ [][Next]_vars

(***************************************************************************)
(* Vocabulary of the properties.                                           *)
(***************************************************************************)
\* The raw text of the marker a call was made for.
MarkerText(c) == c.content

\* The findings of the duplicate check of the marker of call c.
MarkerFindings(c) ==
    check_implementation_exists(code_database, c.pattern, PathStem(c.file)).findings

\* Whether task t was built for the marker of call c.
TaskOf(t, c) == t.file = c.file /\ t.line = c.line /\ t.type = c.type

IsSurvivor(c) == Len(MarkerFindings(c)) = 0

\* The calls whose marker has no finding, in call order.
SurvivingCalls == SelectSeq(calls, IsSurvivor)

\* Whether text t contains word w in any letter case.
Mentions(t, w) == Contains(w, Lower(t))

\* The run has ended, its only marker is a TODO on line 5 of a.erl that
\* contains "consistent", and no indexed file declares consistent_hashing.
C1_Premise ==
    /\ pc = "done"
    /\ Len(calls) = 1
    \* text: "a.erl"
    /\ PathName(calls[1].file) = <<"a",".","e","r","l">>
    /\ calls[1].line = 5
    /\ calls[1].type = "todo"
    \* text: "TODO"
    /\ Contains(<<"T","O","D","O">>, MarkerText(calls[1]))
    \* text: "consistent"
    /\ Contains(<<"c","o","n","s","i","s","t","e","n","t">>, MarkerText(calls[1]))
    /\ \A k \in 1..Len(code_database) : ~InSeq(consistent_hashing, code_database[k].functions)

(***************************************************************************)
(* C1.  A TODO marker survives when no indexed file declares a routine     *)
(* named after its topic: when line 5 of a.erl contains TODO and           *)
(* "consistent", it is the only marker of the tree and no indexed file     *)
(* declares consistent_hashing, the returned tasks are exactly one task    *)
(* for it (consistent_hashing, todo, medium, a.erl, line 5) and            *)
(* total_found is 1.                                                       *)
(***************************************************************************)
C1_TodoWithoutRoutineYieldsTask ==
    C1_Premise =>
        /\ Len(result.tasks) = 1
        /\ TaskOf(result.tasks[1], calls[1])
        /\ result.tasks[1].pattern = consistent_hashing
        /\ result.tasks[1].priority = "medium"
        /\ result.total_found = 1

(***************************************************************************)
(* C2.  Skip correctness: a marker whose topic and file stem yield at      *)
(* least one finding has no task in the survivor list or in the returned   *)
(* tasks, and is not counted in total_found.  (Stated contrapositively: a  *)
(* task in either list belongs to a marker without findings.)              *)
(***************************************************************************)
C2_SkipCorrectness ==
    /\ \A k \in 1..Len(calls) :
          /\ \A n \in 1..Len(tasks) :
                TaskOf(tasks[n], calls[k]) => Len(MarkerFindings(calls[k])) = 0
          /\ pc = "done" =>
                \A n \in 1..Len(result.tasks) :
                    TaskOf(result.tasks[n], calls[k]) => Len(MarkerFindings(calls[k])) = 0
    /\ pc = "done" => result.total_found <= Len(SurvivingCalls)

\* Scenario 7: the gossip TODO of a b.erl that declares gossip_protocol has
\* a function_exists finding and the run has ended.
C2_Witness ==
    /\ pc = "done"
    /\ \E k \in 1..Len(calls) :
          \* text: "b.erl"
          /\ PathName(calls[k].file) = <<"b",".","e","r","l">>
          /\ calls[k].pattern = gossip_protocol
          /\ \E n \in 1..Len(MarkerFindings(calls[k])) :
                MarkerFindings(calls[k])[n].type = "function_exists"

(***************************************************************************)
(* C3.  Cap: the returned tasks are at most 10, and are the first          *)
(* min(10, n) of the n tasks built for the surviving markers, in the order *)
(* they were built.                                                        *)
(***************************************************************************)
C3_CapInvariant ==
    pc = "done" =>
        LET survivors == SurvivingCalls
        IN  /\ Len(result.tasks) <= 10
            /\ Len(tasks) = Len(survivors)
            /\ Len(result.tasks) = (IF Len(tasks) < 10 THEN Len(tasks) ELSE 10)
            /\ \A k \in 1..Len(result.tasks) :
                  /\ result.tasks[k] = tasks[k]
                  /\ TaskOf(result.tasks[k], survivors[k])

\* A run that ended with more than 10 surviving markers.
C3_Witness == pc = "done" /\ Len(SurvivingCalls) > 10

(***************************************************************************)
(* C4.  Priority mapping: a stub task has priority high and 3 hours, a     *)
(* todo task has priority medium and 2 hours, there is no other kind, and  *)
(* every task is fact_verified.                                            *)
(***************************************************************************)
C4_PriorityMapping ==
    \A k \in 1..Len(tasks) :
        /\ tasks[k].type \in {"stub", "todo"}
        /\ tasks[k].type = "stub" => tasks[k].priority = "high" /\ tasks[k].hours = 3
        /\ tasks[k].type = "todo" => tasks[k].priority = "medium" /\ tasks[k].hours = 2
        /\ tasks[k].fact_verified = TRUE

\* A stub task and a todo task have been built.
C4_Witness ==
    /\ \E k \in 1..Len(tasks) : tasks[k].type = "stub"
    /\ \E k \in 1..Len(tasks) : tasks[k].type = "todo"

\* The name of an option: its text before the colon.
OptionName(option) == SubSeq(option, 1, NextIn(option, 1, {":"}) - 1)

(***************************************************************************)
(* C5.  ADR completeness: the returned adrs are three, with ids ADR-001,   *)
(* ADR-002, ADR-003 for supervision strategy, consistent hashing and       *)
(* native-extension integration in that order; each needs approval, lists  *)
(* at least 2 options, and its decision starts with the name of one of     *)
(* its options.                                                            *)
(***************************************************************************)
C5_AdrCompleteness ==
    pc = "done" =>
        /\ Len(result.adrs) = 3
        \* text: "ADR-001"
        /\ result.adrs[1].id = <<"A","D","R","-","0","0","1">>
        \* text: "ADR-002"
        /\ result.adrs[2].id = <<"A","D","R","-","0","0","2">>
        \* text: "ADR-003"
        /\ result.adrs[3].id = <<"A","D","R","-","0","0","3">>
        /\ result.adrs[1].title = "Memory Service Supervision Strategy"
        /\ result.adrs[2].title = "Consistent Hashing Algorithm Choice"
        /\ result.adrs[3].title = "Rust NIF Integration Pattern"
        /\ \A k \in 1..3 :
              /\ result.adrs[k].status = "needs_approval"
              /\ Len(result.adrs[k].options) >= 2
              /\ \E n \in 1..Len(result.adrs[k].options) :
                    /\ Len(OptionName(result.adrs[k].options[n])) > 0
                    /\ StartsWith(result.adrs[k].decision,
                                  OptionName(result.adrs[k].options[n]))

\* A run over a tree without files that has returned its ADRs.
C5_Witness == pc = "done" /\ fs.files = {} /\ Len(result.adrs) > 0

(***************************************************************************)
(* C6.  total_found is the number of tasks built before the cap: it leaves *)
(* out the markers the duplicate check dropped, it is at least the number  *)
(* of returned tasks, and the returned tasks are min(10, total_found).     *)
(***************************************************************************)
C6_TotalFound ==
    pc = "done" =>
        /\ result.total_found = Len(tasks)
        /\ result.total_found = Len(SurvivingCalls)
        /\ result.total_found >= Len(result.tasks)
        /\ Len(result.tasks) = (IF result.total_found < 10 THEN result.total_found ELSE 10)

\* A run with a dropped marker and more surviving markers than the cap.
C6_Witness ==
    /\ pc = "done"
    /\ result.total_found > Len(result.tasks)
    /\ Len(calls) > result.total_found

(***************************************************************************)
(* C7.  A missing root is fatal: when the root path does not exist the     *)
(* construction fails and no result is returned.                           *)
(***************************************************************************)
C7_MissingRootIsFatal == ~fs.exists => pc \in {"new", "raised"}

\* The calls (or tasks) of one file are adjacent: between two entries of a
\* file there is no entry of another file.
FilesAdjacent(s) ==
    \A j, k \in 1..Len(s) :
        j < k /\ s[j].file = s[k].file => s[j + 1].file = s[j].file

\* C8 as stated: the markers are handled file by file, and of two markers
\* of one file the one with the smaller line number is handled first,
\* whatever their kinds; the tasks of one file are in non-decreasing line
\* order.
C8_FileThenLineOrder ==
    /\ FilesAdjacent(calls)
    /\ \A j, k \in 1..Len(calls) :
          j < k /\ calls[j].file = calls[k].file => calls[j].line <= calls[k].line
    /\ \A j, k \in 1..Len(tasks) :
          j < k /\ tasks[j].file = tasks[k].file => tasks[j].line <= tasks[k].line

\* Of two entries of one file, a todo comes before a stub and two of the
\* same kind come in increasing line order.
KindThenLine(s) ==
    \A j, k \in 1..Len(s) :
        j < k /\ s[j].file = s[k].file =>
            /\ s[j].type = "stub" => s[k].type = "stub"
            /\ s[j].type = s[k].type => s[j].line < s[k].line

\* C8 amended: the markers are handled file by file; within one file all
\* todo markers are handled in increasing line order, and after them all
\* stub markers in increasing line order; the tasks of one file appear in
\* that order.
C8_FileThenKindThenLine ==
    /\ FilesAdjacent(calls)
    /\ KindThenLine(calls)
    /\ FilesAdjacent(tasks)
    /\ KindThenLine(tasks)

\* The task of a stub follows the task of a todo of a later line of its file.
C8_Witness ==
    \E j, k \in 1..Len(tasks) :
        /\ j < k
        /\ tasks[j].file = tasks[k].file
        /\ tasks[j].line > tasks[k].line
        /\ tasks[j].type = "todo" /\ tasks[k].type = "stub"

\* The names and the file-stem patterns the verdict is checked for.
NameInputs ==
    {consistent_hashing, gossip_protocol, rust_nif, general,
     \* text: "ring", "hash", "gossip", "consistent_hashing2"
     <<"r","i","n","g">>, <<"h","a","s","h">>, <<"g","o","s","s","i","p">>, <<"c","o","n","s","i","s","t","e","n","t","_","h","a","s","h","i","n","g","2">>}

\* text: "a", "b", "ring", "table", "erl", "zz", "src/a"
StemInputs == {<<>>, <<"a">>, <<"b">>, <<"r","i","n","g">>, <<"t","a","b","l","e">>, <<"e","r","l">>, <<"z","z">>, <<"s","r","c","/","a">>}

\* The entries of the database that declare exactly name.
Declaring(name) ==
    {k \in 1..Len(code_database) :
        \E n \in 1..Len(code_database[k].functions) : code_database[k].functions[n] = name}

\* The entries of the database whose path has stem as a substring.
PathContaining(stem) ==
    {k \in 1..Len(code_database) : Contains(stem, code_database[k].path)}

\* The indices of the findings of a given type for the file of entry k.
FindingsFor(findings, k, type) ==
    {n \in 1..Len(findings) :
        findings[n].file = code_database[k].path /\ findings[n].type = type}

VerdictAsSpecified(name, stem) ==
    LET v == check_implementation_exists(code_database, name, stem)
        declaring == Declaring(name)
        containing == PathContaining(stem)
    IN  /\ \A k \in 1..Len(code_database) :
              /\ Cardinality(FindingsFor(v.findings, k, "function_exists"))
                     = (IF k \in declaring THEN 1 ELSE 0)
              /\ Cardinality(FindingsFor(v.findings, k, "similar_module"))
                     = (IF k \in containing THEN 1 ELSE 0)
        /\ Len(v.findings) = Cardinality(declaring) + Cardinality(containing)
        /\ \A n \in 1..Len(v.findings) :
              \/ v.findings[n].type = "function_exists" /\ v.findings[n].confidence = 9
              \/ v.findings[n].type = "similar_module" /\ v.findings[n].confidence = 7
        /\ v.exists = (Len(v.findings) > 0)
        /\ v.recommendation = (IF v.exists THEN "skip" ELSE "implement")

(***************************************************************************)
(* C9.  The verdict of check_implementation_exists: one function_exists    *)
(* finding of confidence 0.9 for each indexed file that declares exactly   *)
(* the name, one similar_module finding of confidence 0.7 for each indexed *)
(* file whose path contains the pattern, no other finding; exists iff      *)
(* there is a finding; recommendation skip iff exists, else implement.     *)
(***************************************************************************)
C9_CheckExistsVerdict ==
    pc = "constructed" => \A name \in NameInputs, stem \in StemInputs : VerdictAsSpecified(name, stem)

\* An indexed file that meets both conditions contributes two findings.
C9_Witness ==
    /\ pc = "constructed"
    /\ Len(code_database) > 1
    /\ \E k \in 1..Len(code_database) :
          \* text: "ring", "ring"
          /\ k \in Declaring(<<"r","i","n","g">>) /\ k \in PathContaining(<<"r","i","n","g">>)
          \* text: "ring", "ring"
          /\ Cardinality({n \in 1..Len(check_implementation_exists(code_database, <<"r","i","n","g">>, <<"r","i","n","g">>).findings) :
                 \* text: "ring", "ring"
                 check_implementation_exists(code_database, <<"r","i","n","g">>, <<"r","i","n","g">>).findings[n].file
                     = code_database[k].path}) = 2

Topics == {consistent_hashing, gossip_protocol, rust_nif, general}

\* C10 as stated: the topic is consistent_hashing if the raw text contains
\* "consistent", otherwise gossip_protocol if it contains "gossip",
\* otherwise rust_nif if it contains "nif", otherwise general.
C10_FirstMatchOnRawText ==
    \A k \in 1..Len(calls) :
        LET t == MarkerText(calls[k])
        IN  calls[k].pattern =
                \* text: "consistent"
                (IF Contains(<<"c","o","n","s","i","s","t","e","n","t">>, t) THEN consistent_hashing
                 \* text: "gossip"
                 ELSE IF Contains(<<"g","o","s","s","i","p">>, t) THEN gossip_protocol
                 \* text: "nif"
                 ELSE IF Contains(<<"n","i","f">>, t) THEN rust_nif
                 ELSE general)

\* C10 amended: the keywords are matched in any letter case (against the
\* lower-cased text); every marker gets exactly one topic, that of the
\* earliest matching keyword in the order consistent, gossip, nif, and
\* general when none matches.
C10_FirstMatchAnyCase ==
    \A k \in 1..Len(calls) :
        LET t == MarkerText(calls[k])
            p == calls[k].pattern
        IN  /\ p \in Topics
            \* text: "consistent"
            /\ p = consistent_hashing <=> Mentions(t, <<"c","o","n","s","i","s","t","e","n","t">>)
            \* text: "consistent", "gossip"
            /\ p = gossip_protocol <=> ~Mentions(t, <<"c","o","n","s","i","s","t","e","n","t">>) /\ Mentions(t, <<"g","o","s","s","i","p">>)
            /\ p = rust_nif <=>
                  \* text: "consistent"
                  /\ ~Mentions(t, <<"c","o","n","s","i","s","t","e","n","t">>)
                  \* text: "gossip"
                  /\ ~Mentions(t, <<"g","o","s","s","i","p">>)
                  \* text: "nif"
                  /\ Mentions(t, <<"n","i","f">>)
            /\ p = general <=>
                  \* text: "consistent"
                  /\ ~Mentions(t, <<"c","o","n","s","i","s","t","e","n","t">>)
                  \* text: "gossip"
                  /\ ~Mentions(t, <<"g","o","s","s","i","p">>)
                  \* text: "nif"
                  /\ Mentions(t, <<"n","i","f">>) = FALSE
            /\ \A n \in 1..Len(tasks) : TaskOf(tasks[n], calls[k]) => tasks[n].pattern = p

\* A marker that mentions "gossip" and "nif" got gossip_protocol, the topic
\* of the earlier keyword, and its task was built.
C10_Witness ==
    \E k \in 1..Len(calls) :
        \* text: "gossip"
        /\ Mentions(MarkerText(calls[k]), <<"g","o","s","s","i","p">>)
        \* text: "nif"
        /\ Mentions(MarkerText(calls[k]), <<"n","i","f">>)
        /\ calls[k].pattern = gossip_protocol
        /\ \E n \in 1..Len(tasks) : TaskOf(tasks[n], calls[k])

\* Whether the file of call c is an entry of the code database.
Indexed(c) == \E k \in 1..Len(code_database) : code_database[k].path = c.file

\* Whether the duplicate check of the marker of call c has a similar_module
\* finding for the marker's own file and recommends skip.
SelfMatch(c) ==
    LET v == check_implementation_exists(code_database, c.pattern, PathStem(c.file))
    IN  /\ \E n \in 1..Len(v.findings) :
              v.findings[n].type = "similar_module" /\ v.findings[n].file = c.file
        /\ v.recommendation = "skip"

\* Whether every file the scan yields is an entry of the code database.
ScannedFilesIndexed ==
    \A f \in MemoryGlob(fs) :
        \E k \in 1..Len(code_database) : code_database[k].path = FilePath(fs, f)

\* C11 as stated: every scanned file is in the code database, so the check
\* of every marker has a similar_module finding for the marker's own file
\* and recommends skip; every run returns no task and total_found 0.
C11_SelfMatchEmptiesEveryRun ==
    /\ \A k \in 1..Len(calls) : Indexed(calls[k]) /\ SelfMatch(calls[k])
    /\ tasks = <<>>
    /\ pc = "done" => result.tasks = <<>> /\ result.total_found = 0

(***************************************************************************)
(* C11.  Self-match of an indexed file, amended: the check of every marker *)
(* whose file is an entry of the code database has a similar_module        *)
(* finding for the marker's own file and recommends skip, and no task is   *)
(* built for it; a run on a tree whose scanned files are all in the code   *)
(* database (none is reached through a symbolic link to a directory)       *)
(* returns no task and total_found 0.  A scanned file below a symbolic     *)
(* link is not in the code database, and its markers need not be skipped.  *)
(***************************************************************************)
C11_SelfMatchOfIndexedFiles ==
    /\ \A k \in 1..Len(calls) :
          Indexed(calls[k]) =>
              /\ SelfMatch(calls[k])
              /\ \A n \in 1..Len(tasks) : ~TaskOf(tasks[n], calls[k])
    /\ pc = "done" /\ ScannedFilesIndexed =>
          result.tasks = <<>> /\ result.total_found = 0

\* A run has ended on a tree whose scanned files are all indexed; it met
\* markers, one of them skipped for no other finding than the similar_module
\* finding of its own file, and returned no task.
C11_Witness ==
    /\ pc = "done"
    /\ ScannedFilesIndexed
    /\ Len(calls) > 0
    /\ \E k \in 1..Len(calls) :
          /\ SelfMatch(calls[k])
          /\ Len(MarkerFindings(calls[k])) = 1
    /\ result.tasks = <<>>
    /\ result.total_found = 0

====
